---------------------------- MODULE Spec2Model ----------------------------
(***************************************************************************)
(* Gesture-driven mode state machine and particle registry of the          *)
(* Christmas-tree particle scene.                                          *)
(*                                                                         *)
(* The repository holds several revisions of the same program.  A          *)
(* behaviour of this model is a run of ONE of them, fixed by `build`:      *)
(*   "Scene"       src/components/Scene.tsx driven by the React component  *)
(*                 App (mode is React state, Scene copies the prop into    *)
(*                 stateRef.current.mode in an effect);                    *)
(*   "Experience"  class Experience of src/App.tsx driven by the gesture   *)
(*                 loop of src/unnamed/part_001 and MediaPipeService of    *)
(*                 src/unnamed/part_004;                                   *)
(*   "SceneB"      the Scene revision of src/unnamed/part_002.             *)
(*                                                                         *)
(* Lengths are in thousandths of the normalized landmark unit, so the      *)
(* source's 0.05 is 50.  Registry indices are the source's 0-based array   *)
(* indices; particles[i + 1] is the source's particles[i].                 *)
(***************************************************************************)
EXTENDS Integers, Sequences, FiniteSets, TLC

VARIABLES
  build,              \* which revision runs
  particles,          \* the registry: Scene `particles` / Experience.particles
  mode,               \* App: const [mode, setMode] = useState(SceneMode.TREE)
  pendingMode,        \* App: the setMode update queued and not yet rendered
  effectDue,          \* Scene: the effect [mode] of the last commit has not run yet
  stateRefMode,       \* Scene: stateRef.current.mode (SceneB: modeRef.current)
  focusedPhotoIndex,  \* Scene: stateRef.current.focusedPhotoIndex (SceneB: the local)
  targets,            \* Scene: per particle targetPos / targetRot / targetScale
  meshes,             \* per particle: what the last integration step moved the mesh toward
  experienceMode,     \* Experience.mode
  focusId,            \* Experience: (this as any).focusId
  clock,              \* Date.now()
  mainGroup,          \* what last wrote mainGroup.rotation
  batch,              \* history: what the queued setMode updates came from
  last,               \* history: the handler that ran last, and what it saw on entry
  frame,              \* history: the steps of the frame, when a frame ran last
  probe,              \* the arguments a pure function of the program is applied to
  result              \* what the function returned for them

vars == << build, particles, mode, pendingMode, effectDue, stateRefMode,
           focusedPhotoIndex, targets, meshes, experienceMode, focusId,
           clock, mainGroup, batch, last, frame, probe, result >>

---------------------------------------------------------------------------
(* Bounds of the model *)

\* DECOR particles created at start-up (the source creates 1500)
NumDecor == 1
\* DUST particles created at start-up (the source creates 2500 / 2000)
NumDust == 1
\* photos ingested in one run
MaxPhotos == 2
\* readings the clock advances through
MaxClock == 1

\* integration steps toward one target
MaxSteps == 3
\* largest coordinate of a start or target position
MaxCoordinate == 2

---------------------------------------------------------------------------
(* Program constants *)

\* Scene.tsx: if (pinchDist < 0.05)
PinchThreshold == 50
\* Scene.tsx: else if (avgDist < 0.25)
FistThreshold == 250
\* Scene.tsx: else if (avgDist > 0.4)
OpenThreshold == 400
\* MediaPipeService.detectGestures: if (pinchDist < 0.05)
ServicePinchThreshold == 50
\* MediaPipeService.detectGestures: else if (avgDist < 0.25)
ServiceFistThreshold == 250
\* MediaPipeService.detectGestures: else if (avgDist > 0.4)
ServiceOpenThreshold == 400
\* part_002: if (pinch < 0.04)
PinchThresholdB == 40
\* part_002: else if (ext < 0.2)
FistThresholdB == 200
\* part_002: else if (ext > 0.35)
OpenThresholdB == 350

\* part_004 processHand: if (pinchDist < 0.04)
ProcessHandPinchThreshold == 40
\* part_004 processHand: else if (avgDist < 0.2)
ProcessHandFistThreshold == 200
\* part_004 processHand: else if (avgDist > 0.35)
ProcessHandOpenThreshold == 350

\* Scene.tsx: for (let i = 0; i < 1500; i++), the DECOR loop
DecorCount == 1500
\* Scene.tsx calculateTargets: const t = p.slotIndex / 1500
HelixSlots == 1500
\* Scene.tsx calculateTargets: const radius = 13 * (1 - t)
HelixRadius == 13
\* Scene.tsx calculateTargets: (t * 32) - 15, the factor
HelixHeight == 32
\* Scene.tsx calculateTargets: (t * 32) - 15, the offset
HelixBase == 15
\* Experience.animate: const t = i / 1500
ExperienceHelixSlots == 1500
\* Experience.animate: const radius = 12 * (1 - t)
ExperienceHelixRadius == 12
\* Experience.animate: t * 30 - 15, the factor
ExperienceHelixHeight == 30
\* Experience.animate: t * 30 - 15, the offset
ExperienceHelixBase == 15

\* ParticleItem.update: this.mesh.position.lerp(this.targetPos, 0.07), in hundredths
UpdateAlpha == 7
\* Experience.animate: p.mesh.position.lerp(targetPos, 0.05), in hundredths
ExperienceAlpha == 5
\* Experience.animate: THREE.MathUtils.lerp(currentScale, targetScale, 0.1), in hundredths
ExperienceScaleAlpha == 10

\* part_002 ParticleItem constructor: this.updateScatterPos(index, 4000)
AnchorTotal == 4000
\* part_002 updateScatterPos: Math.acos(1 - 2 * (index / 50)) for a PHOTO
AnchorPhotoTotal == 50

Builds == {"Scene", "Experience", "SceneB"}

\* enum SceneMode / enum AppMode
SceneMode == {"TREE", "SCATTER", "FOCUS"}

\* no setMode update is queued
NoUpdate == "NoUpdate"

\* Experience.createParticles: the types the if-chain on typeRand gives a
\* subject particle are 'GOLD_BOX', 'GREEN_BOX', 'RED_SPHERE', 'GOLD_SPHERE' and
\* 'CANDY_CANE'; the draws of the model take the first and the last branch
DrawnTypes == {"GOLD_BOX", "CANDY_CANE"}

\* the value of (this as any).focusId before the first assignment
Undefined == << "undefined", 0 >>

\* addParticleData: id: Math.random().toString(36).substr(2, 9); the draw of
\* the n-th call, each draw giving a string of its own
RandomId(n) == << "rand", n >>

---------------------------------------------------------------------------
(* Landmark frames *)

Abs(n) == IF n < 0 THEN -n ELSE n

\* Math.hypot on the frames of the model, whose offsets are axis-aligned or
\* multiples of the 3-4-5 triangle, so that the root is exact
Hypot(dx, dy) ==
  IF dx = 0 THEN Abs(dy)
  ELSE IF dy = 0 THEN Abs(dx)
  ELSE CHOOSE r \in 0 .. (Abs(dx) + Abs(dy)) : r * r = dx * dx + dy * dy

Hypot3(dx, dy, dz) == Hypot(Hypot(dx, dy), dz)

Point(x, y, z) == [x |-> x, y |-> y, z |-> z]

\* The landmarks the programs read: wrist 0, thumb tip 4, index tip 8, palm 9,
\* middle tip 12, ring tip 16, pinky tip 20.  The wrist is fixed; each finger tip
\* lies straight above it, the thumb tip beside the index tip.
Wrist == Point(500, 900, 0)

\* thumb-to-index offsets (dx, dz): 2D distance |dx|, 3D distance hypot(dx, dz)
ThumbOffsets == { <<30, 0>>, <<30, 40>>, <<40, 0>>, <<50, 0>>, <<60, 0>> }

\* wrist-to-fingertip distances
TipReach == {100, 300, 500}

MakeHand(th, d8, d12, d16) ==
  [ l0  |-> Wrist,
    l4  |-> Point(Wrist.x + th[1], Wrist.y - d8, th[2]),
    l8  |-> Point(Wrist.x, Wrist.y - d8, 0),
    l9  |-> Point(Wrist.x, Wrist.y - 100, 0),
    l12 |-> Point(Wrist.x, Wrist.y - d12, 0),
    l16 |-> Point(Wrist.x, Wrist.y - d16, 0),
    l20 |-> Point(Wrist.x, Wrist.y - d16, 0) ]

Hands == { MakeHand(th, d8, d12, d16) :
             th \in ThumbOffsets, d8 \in TipReach, d12 \in TipReach, d16 \in {100, 500} }

\* what a frame can bring: the tracker or the video is not ready ("NotReady"), no
\* hand is in the picture ("NoHand"), or the landmarks of one hand ("Hand")
Frames ==
  { [state |-> st, hand |-> MakeHand(<<0, 0>>, 0, 0, 0)] : st \in {"NotReady", "NoHand"} }
    \cup { [state |-> "Hand", hand |-> h] : h \in Hands }

\* A faulty chain that tests the fist before the pinch.
SceneGestureFistFirst(hand) ==
  LET pinchDist == Hypot(hand.l4.x - hand.l8.x, hand.l4.y - hand.l8.y)
      sumDist == Hypot(hand.l8.x - hand.l0.x, hand.l8.y - hand.l0.y)
                 + Hypot(hand.l12.x - hand.l0.x, hand.l12.y - hand.l0.y)
                 + Hypot(hand.l16.x - hand.l0.x, hand.l16.y - hand.l0.y)
                 + Hypot(hand.l20.x - hand.l0.x, hand.l20.y - hand.l0.y)
  IN  IF sumDist < 4 * FistThreshold THEN "FIST"
      ELSE IF pinchDist < PinchThreshold THEN "PINCH"
      ELSE IF sumDist > 4 * OpenThreshold THEN "OPEN"
      ELSE "NONE"

\* Scene.tsx animate: the gesture its if/else-if chain selects
SceneGesture(hand) ==
  LET pinchDist == Hypot(hand.l4.x - hand.l8.x, hand.l4.y - hand.l8.y)
      sumDist == Hypot(hand.l8.x - hand.l0.x, hand.l8.y - hand.l0.y)
                 + Hypot(hand.l12.x - hand.l0.x, hand.l12.y - hand.l0.y)
                 + Hypot(hand.l16.x - hand.l0.x, hand.l16.y - hand.l0.y)
                 + Hypot(hand.l20.x - hand.l0.x, hand.l20.y - hand.l0.y)
  IN  IF pinchDist < PinchThreshold THEN "PINCH"
      ELSE IF sumDist < 4 * FistThreshold THEN "FIST"
      ELSE IF sumDist > 4 * OpenThreshold THEN "OPEN"
      ELSE "NONE"

\* part_002 animate: the gesture its if/else-if chain selects
SceneBGesture(hand) ==
  LET pinch == Hypot(hand.l4.x - hand.l8.x, hand.l4.y - hand.l8.y)
      sumExt == Hypot(hand.l8.x - hand.l0.x, hand.l8.y - hand.l0.y)
                + Hypot(hand.l12.x - hand.l0.x, hand.l12.y - hand.l0.y)
  IN  IF pinch < PinchThresholdB THEN "PINCH"
      ELSE IF sumExt < 2 * FistThresholdB THEN "FIST"
      ELSE IF sumExt > 2 * OpenThresholdB THEN "OPEN"
      ELSE "NONE"

\* A faulty detectGestures whose comparisons include the thresholds.
ServiceGestureClosed(hand) ==
  LET pinchDist == Hypot3(hand.l4.x - hand.l8.x, hand.l4.y - hand.l8.y,
                          hand.l4.z - hand.l8.z)
      sumDist == Hypot(hand.l12.x - hand.l0.x, hand.l12.y - hand.l0.y)
                 + Hypot(hand.l16.x - hand.l0.x, hand.l16.y - hand.l0.y)
                 + Hypot(hand.l20.x - hand.l0.x, hand.l20.y - hand.l0.y)
  IN  IF pinchDist <= ServicePinchThreshold THEN "PINCH"
      ELSE IF sumDist <= 3 * ServiceFistThreshold THEN "FIST"
      ELSE IF sumDist >= 3 * ServiceOpenThreshold THEN "OPEN"
      ELSE "NONE"

\* MediaPipeService.detectGestures: the gesture string handed to the callback
ServiceGesture(hand) ==
  LET pinchDist == Hypot3(hand.l4.x - hand.l8.x, hand.l4.y - hand.l8.y,
                          hand.l4.z - hand.l8.z)
      sumDist == Hypot(hand.l12.x - hand.l0.x, hand.l12.y - hand.l0.y)
                 + Hypot(hand.l16.x - hand.l0.x, hand.l16.y - hand.l0.y)
                 + Hypot(hand.l20.x - hand.l0.x, hand.l20.y - hand.l0.y)
  IN  IF pinchDist < ServicePinchThreshold THEN "PINCH"
      ELSE IF sumDist < 3 * ServiceFistThreshold THEN "FIST"
      ELSE IF sumDist > 3 * ServiceOpenThreshold THEN "OPEN"
      ELSE "NONE"

\* part_004 processHand: the branch of its if/else-if chain, named by the
\* gesture it stands for
ProcessHandGesture(hand) ==
  LET pinchDist == Hypot(hand.l4.x - hand.l8.x, hand.l4.y - hand.l8.y)
      sumDist == Hypot(hand.l8.x - hand.l0.x, hand.l8.y - hand.l0.y)
                 + Hypot(hand.l12.x - hand.l0.x, hand.l12.y - hand.l0.y)
                 + Hypot(hand.l16.x - hand.l0.x, hand.l16.y - hand.l0.y)
                 + Hypot(hand.l20.x - hand.l0.x, hand.l20.y - hand.l0.y)
  IN  IF pinchDist < ProcessHandPinchThreshold THEN "PINCH"
      ELSE IF sumDist < 4 * ProcessHandFistThreshold THEN "FIST"
      ELSE IF sumDist > 4 * ProcessHandOpenThreshold THEN "OPEN"
      ELSE "NONE"

\* What one frame hands to the gesture branch of each revision: the states
\* "NotReady" and "NoHand", or the gesture read from the landmarks of a hand
SceneInputs ==
  { IF f.state = "Hand" THEN SceneGesture(f.hand) ELSE f.state : f \in Frames }

SceneBInputs ==
  { IF f.state = "Hand" THEN SceneBGesture(f.hand) ELSE f.state : f \in Frames }

ServiceInputs ==
  { IF f.state = "Hand" THEN ServiceGesture(f.hand) ELSE f.state : f \in Frames }

\* a hand was in the frame
Tracked(g) == g \notin {"NotReady", "NoHand"}

---------------------------------------------------------------------------
(* The registry *)

\* particles[i] of the source, i counted from 0
At(i) == particles[i + 1]

Indices == 0 .. (Len(particles) - 1)

\* particles.filter(p => p.type === 'PHOTO'), as registry indices
Photos(ps) == { i \in 0 .. (Len(ps) - 1) : ps[i + 1].type = "PHOTO" }

\* the kind of the data model a particle type stands for
Kind(type) ==
  IF type = "PHOTO" THEN "PHOTO" ELSE IF type = "DUST" THEN "DUST" ELSE "DECOR"

\* Math.random(): the draws 0 and 0.5, in halves
Randoms == {0, 1}

\* Scene.tsx ParticleItem constructor, lines 46-54: scatterPos in spherical
\* coordinates from three draws: radius in tenths, theta in half turns, and
\* cos(phi) as a fraction
SceneAnchor(type, d1, d2, d3) ==
  [ radius |-> IF type = "PHOTO" THEN 120 + 75 * d1 ELSE 80 + 60 * d1,
    theta |-> d2,
    cosNum |-> d3 - 1,
    cosDen |-> 1 ]

\* part_002 updateScatterPos(index, total): radius in tenths, theta as the
\* multiple of PI * (1 + sqrt(5)), cos(phi) as a fraction; d1 is the draw of
\* line 43 and d2 the draw for DUST
SceneBAnchor(type, index, total, d1, d2) ==
  IF type = "PHOTO"
  THEN [ radius |-> 220 + (index % 15) * 12,
         theta |-> index,
         cosNum |-> AnchorPhotoTotal - 2 * index,
         cosDen |-> AnchorPhotoTotal ]
  ELSE [ radius |-> IF type = "DUST" THEN 300 + 50 * d2 ELSE 120 + 40 * d1,
         theta |-> index,
         cosNum |-> total - 2 * index,
         cosDen |-> total ]

\* the outcome of Math.random() in the constructor call for slot `index`: one
\* outcome for each particle, so that a registry is one value
ConstructorDraw(index) == index % 2

\* the scatterPos the constructor of the revision computes
ScatterPos(type, index) ==
  IF build = "SceneB"
  THEN SceneBAnchor(type, index, AnchorTotal, ConstructorDraw(index), ConstructorDraw(index))
  ELSE SceneAnchor(type, ConstructorDraw(index), ConstructorDraw(index), ConstructorDraw(index))

\* new ParticleItem(mesh, type, index): the fields the constructor fixes
ParticleItem(type, index) ==
  [type |-> type, slotIndex |-> index, scatterPos |-> ScatterPos(type, index)]

\* the target fields a new ParticleItem starts with: Vector3(), Euler(), (1, 1, 1)
InitialTarget == [pos |-> "origin", rot |-> "zero", scale |-> <<10, 10, 10>>]

\* a mesh no integration step has moved yet
RestingMesh == [toward |-> [pos |-> "rest", rot |-> "rest", scale |-> <<10, 10, 10>>],
                spun |-> FALSE]

\* Scene.tsx: the two loops that fill `particles` before the first frame
SceneParticles ==
  [i \in 1 .. (NumDecor + NumDust) |->
     IF i <= NumDecor THEN ParticleItem("DECOR", i - 1)
     ELSE ParticleItem("DUST", i - NumDecor - 1)]

\* part_002: the default photo, then the two loops
SceneBParticles ==
  << ParticleItem("PHOTO", 0) >> \o SceneParticles

\* Experience.createParticles: the registries the random draws can produce
ExperienceParticles ==
  { [i \in 1 .. (NumDecor + NumDust) |->
       [type |-> IF i <= NumDecor THEN ty[i] ELSE "DUST", id |-> RandomId(i)]] :
      ty \in [1 .. NumDecor -> DrawnTypes] }

\* the mode the next render of App commits
RequestedMode == IF pendingMode # NoUpdate THEN pendingMode ELSE mode

\* the gestures of scenario B, one per frame, from the state after construction
ScenarioB == << "OPEN", "OPEN", "PINCH" >>

\* how many frames of scenario B the run has followed once handler op has run
\* (-1: the run is not scenario B); renders between the frames leave the count
Followed(op, gesture) ==
  IF op = "animate" THEN
    IF last.scenario \in 0 .. (Len(ScenarioB) - 1) /\ gesture = ScenarioB[last.scenario + 1]
    THEN last.scenario + 1
    ELSE -1
  ELSE IF op = "addPhoto" THEN -1
  ELSE last.scenario

\* what a handler saw on entry
Seen(op, gesture) ==
  [ op |-> op, gesture |-> gesture,
    cur |-> IF build = "Experience" THEN experienceMode ELSE stateRefMode,
    req |-> IF build = "Experience" THEN experienceMode ELSE RequestedMode,
    focus |-> IF build = "Experience" THEN focusId ELSE << "index", focusedPhotoIndex >>,
    ingest |-> batch,
    scenario |-> Followed(op, gesture) ]

\* the last step was not a frame
NoFrame == [log |-> << >>]

\* the steps of a frame of Scene.tsx, part_002 and part_004 over n particles, in
\* the order of the statements of animate, each with the mode it read:
\* the gesture branch, calculateTargets' forEach, then the forEach of update
FrameLog(n, entryMode, targetMode, updateMode) ==
  [k \in 1 .. (2 * n + 1) |->
     IF k = 1 THEN [step |-> "gesture", particle |-> -1, mode |-> entryMode]
     ELSE IF k <= n + 1 THEN [step |-> "target", particle |-> k - 2, mode |-> targetMode]
     ELSE [step |-> "update", particle |-> k - n - 2, mode |-> updateMode]]

\* the steps of Experience.animate over n particles: one forEach whose body
\* computes the target of a particle and then moves that particle
ExperienceLog(n, m) ==
  [k \in 1 .. (2 * n) |->
     IF k % 2 = 1 THEN [step |-> "target", particle |-> (k - 1) \div 2, mode |-> m]
     ELSE [step |-> "update", particle |-> (k - 2) \div 2, mode |-> m]]

\* no function is being applied
NoProbe == [kind |-> "none"]

NoResult == [kind |-> "none"]

\* the program state once the component is mounted / the class constructed
Constructed ==
  /\ build \in Builds
  /\ particles \in CASE build = "Scene" -> {SceneParticles}
                     [] build = "SceneB" -> {SceneBParticles}
                     [] OTHER -> ExperienceParticles
  /\ mode = "TREE"
  /\ pendingMode = NoUpdate
  /\ effectDue = FALSE
  /\ stateRefMode = "TREE"
  /\ focusedPhotoIndex = -1
  /\ targets = [i \in 1 .. Len(particles) |-> InitialTarget]
  /\ meshes = [i \in 1 .. Len(particles) |-> RestingMesh]
  /\ experienceMode = "TREE"
  /\ focusId = Undefined
  /\ clock = 0
  /\ mainGroup = "rest"
  /\ batch = -1
  /\ frame = NoFrame
  /\ last = [ op |-> "init", gesture |-> "NONE", cur |-> "TREE", req |-> "TREE",
              focus |-> IF build = "Experience" THEN Undefined ELSE << "index", -1 >>,
              ingest |-> -1, scenario |-> 0 ]

Init ==
  /\ Constructed
  /\ probe = NoProbe
  /\ result = NoResult

---------------------------------------------------------------------------
(* Scene.tsx *)

\* Scene.tsx calculateTargets: the target of particle idx under the mode and the
\* focus index of stateRef.current; a field the branch does not assign keeps
\* its value
SceneTarget(m, focus, idx, p, old) ==
  IF m = "TREE" THEN
    IF p.type = "DECOR" THEN [pos |-> "helix", rot |-> "helix", scale |-> <<10, 10, 10>>]
    ELSE IF p.type = "PHOTO" THEN [pos |-> "orbit", rot |-> "orbit", scale |-> <<10, 10, 10>>]
    ELSE [old EXCEPT !.pos = "halo"]
  ELSE IF m = "SCATTER" THEN [old EXCEPT !.pos = "scatterPos", !.scale = <<10, 10, 10>>]
  ELSE IF idx = focus THEN [pos |-> "slot", rot |-> "zero", scale |-> <<45, 45, 45>>]
  ELSE [old EXCEPT !.pos = "pushAway", !.scale = <<1, 1, 1>>]

calculateTargets(m, focus) ==
  [i \in 1 .. Len(particles) |-> SceneTarget(m, focus, i - 1, particles[i], targets[i])]

\* A faulty update that adds rotationSpeed in every mode.
UpdateAllSpinning(m, tg) ==
  [i \in 1 .. Len(particles) |-> [toward |-> tg[i], spun |-> TRUE]]

\* A faulty update loop that stops one particle short of the registry.
UpdateAllButLast(m, tg) ==
  [i \in 1 .. (Len(particles) - 1) |-> [toward |-> tg[i], spun |-> (m = "SCATTER")]]

\* ParticleItem.update for every particle: lerp / slerp toward the target, and
\* the rotation increment in SCATTER
UpdateAll(m, tg) ==
  [i \in 1 .. Len(particles) |-> [toward |-> tg[i], spun |-> (m = "SCATTER")]]

\* the fields of the scene a frame works on, between two statements of animate
SceneFields(focus) ==
  [targets |-> targets, meshes |-> meshes, mode |-> stateRefMode, focus |-> focus]

\* calculateTargets() as a statement of animate: what it leaves of the scene
TargetPhase(s) == [s EXCEPT !.targets = calculateTargets(s.mode, s.focus)]

\* A faulty integration that also writes the target it moved toward.
UpdatePhaseWritingTargets(s) ==
  [s EXCEPT !.meshes = UpdateAll(s.mode, s.targets),
            !.targets = [i \in 1 .. Len(s.targets) |-> [s.targets[i] EXCEPT !.pos = "rest"]]]

\* particles.forEach(p => p.update(stateRef.current.mode)) as a statement of
\* animate
UpdatePhase(s) == [s EXCEPT !.meshes = UpdateAll(s.mode, s.targets)]

\* A faulty gesture branch that draws the focus among all particles instead of
\* the PHOTO particles.
SceneGestureBranchAnyParticle(g) ==
  IF g = "PINCH" THEN
    IF stateRefMode # "FOCUS" /\ Photos(particles) # {}
    THEN { [focus |-> target, request |-> "FOCUS"] : target \in Indices }
    ELSE { [focus |-> focusedPhotoIndex, request |-> NoUpdate] }
  ELSE IF g = "FIST" THEN { [focus |-> focusedPhotoIndex, request |-> "TREE"] }
  ELSE IF g = "OPEN" THEN { [focus |-> focusedPhotoIndex, request |-> "SCATTER"] }
  ELSE { [focus |-> focusedPhotoIndex, request |-> NoUpdate] }

\* A faulty gesture branch whose open-hand test asks for TREE.
SceneGestureBranchOpenTree(g) ==
  IF g = "PINCH" THEN
    IF stateRefMode # "FOCUS" /\ Photos(particles) # {}
    THEN { [focus |-> target, request |-> "FOCUS"] : target \in Photos(particles) }
    ELSE { [focus |-> focusedPhotoIndex, request |-> NoUpdate] }
  ELSE IF g = "FIST" THEN { [focus |-> focusedPhotoIndex, request |-> "TREE"] }
  ELSE IF g = "OPEN" THEN { [focus |-> focusedPhotoIndex, request |-> "TREE"] }
  ELSE { [focus |-> focusedPhotoIndex, request |-> NoUpdate] }

\* Scene.tsx animate, lines 281-294: what the gesture branch does to
\* focusedPhotoIndex and which mode it hands to onModeChange (NoUpdate: none)
SceneGestureBranch(g) ==
  IF g = "PINCH" THEN
    IF stateRefMode # "FOCUS" /\ Photos(particles) # {}
    THEN { [focus |-> target, request |-> "FOCUS"] : target \in Photos(particles) }
    ELSE { [focus |-> focusedPhotoIndex, request |-> NoUpdate] }
  ELSE IF g = "FIST" THEN { [focus |-> focusedPhotoIndex, request |-> "TREE"] }
  ELSE IF g = "OPEN" THEN { [focus |-> focusedPhotoIndex, request |-> "SCATTER"] }
  ELSE { [focus |-> focusedPhotoIndex, request |-> NoUpdate] }

\* onModeChange = setMode of App: the update is queued until App renders
onModeChange(request) == IF request = NoUpdate THEN pendingMode ELSE request

\* Scene.tsx animate: one frame
SceneAnimate ==
  /\ build = "Scene"
  /\ \E g \in SceneInputs :
       \E out \in SceneGestureBranch(g) :
         LET gestured == SceneFields(out.focus)
             targeted == TargetPhase(gestured)
             updated == UpdatePhase(targeted)
         IN  /\ focusedPhotoIndex' = updated.focus
             /\ pendingMode' = onModeChange(out.request)
             /\ mainGroup' = IF Tracked(g) THEN "palm" ELSE mainGroup
             /\ targets' = updated.targets
             /\ meshes' = updated.meshes
             /\ frame' = [ log |-> FrameLog(Len(particles), stateRefMode,
                                            gestured.mode, targeted.mode),
                           entry |-> SceneFields(focusedPhotoIndex),
                           gestured |-> gestured, targeted |-> targeted,
                           updated |-> updated ]
             /\ last' = Seen("animate", g)
  /\ UNCHANGED << probe, result, build, particles, mode, effectDue, stateRefMode, experienceMode,
                  focusId, clock, batch >>

\* A faulty addPhotoToScene that puts the new particle in front (unshift).
addPhotoToSceneInFront(ps) ==
  << ParticleItem("PHOTO", Cardinality(Photos(ps))) >> \o ps

\* A faulty addPhotoToScene that takes the registry length as the slot index.
addPhotoToSceneSlotByLength(ps) ==
  Append(ps, ParticleItem("PHOTO", Len(ps)))

\* Scene.tsx addPhotoToScene: the registry after the push
addPhotoToScene(ps) ==
  Append(ps, ParticleItem("PHOTO", Cardinality(Photos(ps))))

\* A faulty ingestion that points the focus one past the new particle.
NewFocusIndexPastEnd(ps) == Len(ps)

\* Scene.tsx handleAddPhoto: stateRef.current.focusedPhotoIndex = particles.length - 1
NewFocusIndex(ps) == Len(ps) - 1

\* Scene.tsx handleAddPhoto: the 'add-photo' event
SceneHandleAddPhoto ==
  /\ build = "Scene"
  /\ Cardinality(Photos(particles)) < MaxPhotos
  /\ particles' = addPhotoToScene(particles)
  /\ targets' = Append(targets, InitialTarget)
  /\ meshes' = Append(meshes, RestingMesh)
  /\ focusedPhotoIndex' = NewFocusIndex(particles')
  /\ pendingMode' = onModeChange("FOCUS")
  /\ batch' = focusedPhotoIndex'
  /\ last' = Seen("addPhoto", "NONE")
  /\ frame' = NoFrame
  /\ UNCHANGED << probe, result, build, mode, effectDue, stateRefMode, experienceMode, focusId,
                  clock, mainGroup >>

\* App re-renders with the queued update.  React runs the effects of the
\* previous commit before it renders again; the effect of this commit is due
\* when the prop `mode` changed.
Render ==
  /\ build \in {"Scene", "SceneB"}
  /\ pendingMode # NoUpdate
  /\ stateRefMode' = IF effectDue THEN mode ELSE stateRefMode
  /\ mode' = pendingMode
  /\ pendingMode' = NoUpdate
  /\ effectDue' = (pendingMode # mode)
  /\ batch' = -1
  /\ last' = Seen("render", "NONE")
  /\ frame' = NoFrame
  /\ UNCHANGED << probe, result, build, particles, focusedPhotoIndex, targets, meshes,
                  experienceMode, focusId, clock, mainGroup >>

\* A faulty effect that runs and copies nothing.
EffectWithoutCopy ==
  /\ build \in {"Scene", "SceneB"}
  /\ effectDue
  /\ effectDue' = FALSE
  /\ last' = Seen("effect", "NONE")
  /\ frame' = NoFrame
  /\ UNCHANGED << probe, result, build, particles, mode, pendingMode, stateRefMode,
                  focusedPhotoIndex, targets, meshes, experienceMode, focusId, clock,
                  mainGroup, batch >>

\* useEffect(() => { stateRef.current.mode = mode; }, [mode])
Effect ==
  /\ build \in {"Scene", "SceneB"}
  /\ effectDue
  /\ stateRefMode' = mode
  /\ effectDue' = FALSE
  /\ last' = Seen("effect", "NONE")
  /\ frame' = NoFrame
  /\ UNCHANGED << probe, result, build, particles, mode, pendingMode, focusedPhotoIndex, targets,
                  meshes, experienceMode, focusId, clock, mainGroup, batch >>

---------------------------------------------------------------------------
(* part_002: the earlier Scene *)

\* part_002 line 190 stores the handLandmarker of that moment, null, in
\* sceneRef.current; initMP later assigns the local variable only, and animate
\* reads sceneRef.current's
SceneRefHandLandmarker == "null"

\* part_002 calculateTargets, lines 197-202: the focus index the frame works with
SceneBFocus(currentMode) ==
  IF currentMode = "FOCUS" /\ focusedPhotoIndex = -1
  THEN IF Photos(particles) = {} THEN {-1} ELSE Photos(particles)
  ELSE IF currentMode # "FOCUS" THEN {-1}
  ELSE {focusedPhotoIndex}

\* part_002 calculateTargets: the target of particle idx
SceneBTarget(m, focus, idx, p, old) ==
  IF m = "TREE" THEN
    IF p.type = "PHOTO" THEN [pos |-> "orbit", rot |-> "orbit", scale |-> <<10, 10, 10>>]
    ELSE IF p.type = "DECOR" THEN [pos |-> "helix", rot |-> "helix", scale |-> <<10, 10, 10>>]
    ELSE [old EXCEPT !.pos = "halo"]
  ELSE IF m = "SCATTER" THEN
    [old EXCEPT !.pos = "scatterPos",
                !.scale = IF p.type = "PHOTO" THEN <<12, 12, 10>> ELSE <<10, 10, 10>>]
  ELSE IF idx = focus THEN [pos |-> "slot", rot |-> "zero", scale |-> <<45, 45, 10>>]
  ELSE [old EXCEPT !.pos = "pushAway", !.scale = <<1, 1, 1>>]

\* part_002 animate, lines 257-259: the mode handed to onModeChange
SceneBGestureBranch(g) ==
  IF g = "PINCH" THEN "FOCUS"
  ELSE IF g = "FIST" THEN "TREE"
  ELSE IF g = "OPEN" THEN "SCATTER"
  ELSE NoUpdate

\* part_002 animate: one frame
SceneBAnimate ==
  /\ build = "SceneB"
  /\ \E input \in SceneBInputs :
       LET g == IF SceneRefHandLandmarker = "null" THEN "NotReady" ELSE input
       IN  /\ pendingMode' = onModeChange(SceneBGestureBranch(g))
           /\ mainGroup' = IF Tracked(g) THEN "palm" ELSE "idle"
           /\ last' = Seen("animate", g)
  /\ \E focus \in SceneBFocus(stateRefMode) :
       /\ focusedPhotoIndex' = focus
       /\ targets' = [i \in 1 .. Len(particles) |->
                        SceneBTarget(stateRefMode, focus, i - 1, particles[i], targets[i])]
       /\ meshes' = UpdateAll(stateRefMode, targets')
       /\ frame' = [ log |-> FrameLog(Len(particles), stateRefMode, stateRefMode,
                                      stateRefMode),
                     entry |-> SceneFields(focusedPhotoIndex),
                     gestured |-> SceneFields(focusedPhotoIndex),
                     targeted |-> [SceneFields(focus) EXCEPT !.targets = targets'],
                     updated |-> [SceneFields(focus) EXCEPT !.targets = targets',
                                                            !.meshes = meshes'] ]
  /\ UNCHANGED << probe, result, build, particles, mode, effectDue, stateRefMode, experienceMode,
                  focusId, clock, batch >>

\* part_002 handleAddPhoto: the texture of an 'add-photo' event has loaded
SceneBHandleAddPhoto ==
  /\ build = "SceneB"
  /\ Cardinality(Photos(particles)) < MaxPhotos
  /\ particles' = addPhotoToScene(particles)
  /\ targets' = Append(targets, InitialTarget)
  /\ meshes' = Append(meshes, RestingMesh)
  /\ pendingMode' = onModeChange("FOCUS")
  /\ batch' = Len(particles') - 1
  /\ last' = Seen("addPhoto", "NONE")
  /\ frame' = NoFrame
  /\ UNCHANGED << probe, result, build, mode, effectDue, stateRefMode, focusedPhotoIndex,
                  experienceMode, focusId, clock, mainGroup >>

---------------------------------------------------------------------------
(* Experience, its gesture loop and MediaPipeService *)

\* the ids of the registry's PHOTO particles
PhotoIds(ps) == { ps[i + 1].id : i \in Photos(ps) }

\* A faulty setMode without the fallback to SCATTER.
setModeWithoutFallback(m) ==
  IF experienceMode # m THEN
    IF m = "FOCUS" /\ Photos(particles) # {}
    THEN { [mode |-> "FOCUS", focusId |-> id] : id \in PhotoIds(particles) }
    ELSE { [mode |-> m, focusId |-> focusId] }
  ELSE { [mode |-> experienceMode, focusId |-> focusId] }

\* Experience.setMode(m): the (mode, focusId) pairs it can leave behind.
\* lastFocusChange is written and never read; the loop of lines 330-332 sets
\* the type of a PHOTO to 'PHOTO'.
setMode(m) ==
  IF experienceMode # m THEN
    IF m = "FOCUS" THEN
      IF Photos(particles) # {}
      THEN { [mode |-> "FOCUS", focusId |-> id] : id \in PhotoIds(particles) }
      ELSE { [mode |-> "SCATTER", focusId |-> focusId] }
    ELSE { [mode |-> m, focusId |-> focusId] }
  ELSE { [mode |-> experienceMode, focusId |-> focusId] }

\* A faulty tagging that compares the ids the wrong way round.
TagFocusOthers(ps, id) ==
  [i \in 1 .. Len(ps) |-> IF ps[i].id # id THEN [ps[i] EXCEPT !.type = "PHOTO"] ELSE ps[i]]

\* Experience.setMode, lines 330-332: every particle with the id of the drawn
\* photo gets type 'PHOTO'
TagFocus(ps, id) ==
  [i \in 1 .. Len(ps) |-> IF ps[i].id = id THEN [ps[i] EXCEPT !.type = "PHOTO"] ELSE ps[i]]

\* A faulty loop that asks for SCATTER on FIST.
LoopRequestFistScatter(g) ==
  IF g = "PINCH" THEN "FOCUS"
  ELSE IF g = "FIST" THEN "SCATTER"
  ELSE IF g = "OPEN" THEN "SCATTER"
  ELSE NoUpdate

\* A faulty loop that asks for TREE when there is no gesture.
LoopRequestIdleTree(g) ==
  IF g = "PINCH" THEN "FOCUS"
  ELSE IF g = "FIST" THEN "TREE"
  ELSE IF g = "OPEN" THEN "SCATTER"
  ELSE "TREE"

\* part_001 loop, lines 65-67: the mode a gesture string asks setMode for
LoopRequest(g) ==
  IF g = "PINCH" THEN "FOCUS"
  ELSE IF g = "FIST" THEN "TREE"
  ELSE IF g = "OPEN" THEN "SCATTER"
  ELSE NoUpdate

\* part_001 loop with MediaPipeService.detectGestures: one pass.  No callback
\* while the tracker or the video is not ready, callback(null) without a hand.
GestureLoop ==
  /\ build = "Experience"
  /\ \E g \in ServiceInputs :
       LET request == LoopRequest(g)
       IN  /\ mainGroup' = IF Tracked(g) THEN "palm" ELSE mainGroup
           /\ \E out \in (IF request = NoUpdate
                          THEN { [mode |-> experienceMode, focusId |-> focusId] }
                          ELSE setMode(request)) :
                /\ experienceMode' = out.mode
                /\ focusId' = out.focusId
                /\ particles' = IF experienceMode # "FOCUS" /\ out.mode = "FOCUS"
                                 THEN TagFocus(particles, out.focusId)
                                 ELSE particles
           /\ last' = Seen("animate", g)
  /\ frame' = NoFrame
  /\ UNCHANGED << probe, result, build, mode, pendingMode, effectDue, stateRefMode,
                  focusedPhotoIndex, targets, meshes, clock, batch >>

\* Experience.addPhotoToScene, called by handleUpload of part_001 when the
\* texture has loaded: id is `photo_${Date.now()}`
ExperienceAddPhoto ==
  /\ build = "Experience"
  /\ Cardinality(Photos(particles)) < MaxPhotos
  /\ particles' = Append(particles, [type |-> "PHOTO", id |-> << "photo", clock >>])
  /\ targets' = Append(targets, InitialTarget)
  /\ meshes' = Append(meshes, RestingMesh)
  /\ batch' = Len(particles') - 1
  /\ last' = Seen("addPhoto", "NONE")
  /\ frame' = NoFrame
  /\ UNCHANGED << probe, result, build, mode, pendingMode, effectDue, stateRefMode, focusedPhotoIndex,
                  experienceMode, focusId, clock, mainGroup >>

\* Experience.animate: the local targetPos / targetScale of particle p.  In
\* FOCUS the other particles go to originalPosition.normalize() * 40
\* ("awayFromOrigin"); originalPosition is not what SCATTER sends them to.
ExperienceTarget(m, p) ==
  IF m = "TREE" THEN
    [pos |-> IF p.type # "DUST" THEN "helix" ELSE "halo", rot |-> "rest",
     scale |-> <<10, 10, 10>>]
  ELSE IF m = "SCATTER" THEN [pos |-> "scatterPos", rot |-> "rest", scale |-> <<10, 10, 10>>]
  ELSE IF p.id = focusId THEN [pos |-> "slot", rot |-> "rest", scale |-> <<45, 45, 45>>]
  ELSE [pos |-> "awayFromOrigin", rot |-> "rest", scale |-> <<5, 5, 5>>]

\* Experience.animate: one frame; p.targetPosition is never written
ExperienceAnimate ==
  /\ build = "Experience"
  /\ meshes' = [i \in 1 .. Len(particles) |->
                  [toward |-> ExperienceTarget(experienceMode, particles[i]),
                   spun |-> (experienceMode = "SCATTER")]]
  /\ frame' = [ log |-> ExperienceLog(Len(particles), experienceMode) ]
  /\ last' = Seen("render", "NONE")
  /\ UNCHANGED << probe, result, build, particles, mode, pendingMode, effectDue, stateRefMode,
                  focusedPhotoIndex, targets, experienceMode, focusId, clock,
                  mainGroup, batch >>

\* time passes: Date.now() returns a later reading
Tock ==
  /\ build = "Experience"
  /\ clock < MaxClock
  /\ clock' = clock + 1
  /\ last' = Seen("tock", "NONE")
  /\ frame' = NoFrame
  /\ UNCHANGED << probe, result, build, particles, mode, pendingMode, effectDue, stateRefMode,
                  focusedPhotoIndex, targets, meshes, experienceMode, focusId,
                  mainGroup, batch >>

Next ==
  \/ SceneAnimate
  \/ SceneHandleAddPhoto
  \/ Render
  \/ Effect
  \/ SceneBAnimate
  \/ SceneBHandleAddPhoto
  \/ GestureLoop
  \/ ExperienceAddPhoto
  \/ ExperienceAnimate
  \/ Tock

Spec == Init /\ [][Next]_vars

\* React renders a component whose state update is queued and runs the effects
\* of a commit: neither waits for ever
SpecFair == Spec /\ WF_vars(Render) /\ WF_vars(Effect)

---------------------------------------------------------------------------
(* Pure functions of the program, applied to drawn arguments *)

\* the program state proper
programVars == << build, particles, mode, pendingMode, effectDue, stateRefMode,
                  focusedPhotoIndex, targets, meshes, experienceMode, focusId,
                  clock, mainGroup, batch, last, frame >>

\* fingertip distances that sit on the thresholds of the revisions
BoundaryReach == {200, 250, 350, 400}

\* thumb offsets of the frames, and one whose 3D distance is 40
ProbeThumbOffsets == ThumbOffsets \cup { <<24, 32>> }

\* the hands the classifiers are applied to
ProbeHands ==
  Hands \cup { MakeHand(th, d, d, d) :
                 th \in ProbeThumbOffsets, d \in TipReach \cup BoundaryReach }

FrameProbes == { [kind |-> "frame", hand |-> h] : h \in ProbeHands }

\* the gesture branch each revision takes on the landmarks of one hand
Classify ==
  /\ probe.kind = "frame"
  /\ result = NoResult
  /\ result' = [ kind |-> "gesture",
                 scene |-> SceneGesture(probe.hand),
                 service |-> ServiceGesture(probe.hand),
                 processHand |-> ProcessHandGesture(probe.hand),
                 sceneB |-> SceneBGesture(probe.hand) ]
  /\ UNCHANGED << probe, programVars >>

\* Scene.tsx calculateTargets, TREE, DECOR: the height (y) of the target and
\* the radius of its circle around the vertical axis, both in units of
\* 1 / 1500 so that t = slotIndex / 1500 stays exact
SceneHelix(slotIndex) ==
  [ height |-> slotIndex * HelixHeight - HelixBase * HelixSlots,
    radius |-> HelixRadius * (HelixSlots - slotIndex) ]

\* Experience.animate, TREE, type other than DUST: the same for registry index i
ExperienceHelix(i) ==
  [ height |-> i * ExperienceHelixHeight - ExperienceHelixBase * ExperienceHelixSlots,
    radius |-> ExperienceHelixRadius * (ExperienceHelixSlots - i) ]

\* the slot indices of the DECOR loop, which are also the registry indices of
\* the subject particles of Experience
SlotProbes == { [kind |-> "slot", slotIndex |-> k] : k \in 0 .. (DecorCount - 1) }

\* one frame in TREE computes the helix target of a DECOR particle
Helix ==
  /\ probe.kind = "slot"
  /\ result = NoResult
  /\ result' = [ kind |-> "helix",
                 scene |-> SceneHelix(probe.slotIndex),
                 experience |-> ExperienceHelix(probe.slotIndex) ]
  /\ UNCHANGED << probe, programVars >>

RECURSIVE Pow(_, _)
Pow(b, e) == IF e = 0 THEN 1 ELSE b * Pow(b, e - 1)

\* A faulty lerp with the difference taken the wrong way round.
LerpAway(x, n, to, alpha) == 100 * x + (x - to * Pow(100, n)) * alpha

\* Vector3.lerp / MathUtils.lerp on one coordinate: x + (to - x) * alpha.  The
\* coordinate after n steps is the fraction x / 100^n and alpha is in
\* hundredths; the value is the numerator over 100^(n + 1), which is exact.
Lerp(x, n, to, alpha) == 100 * x + (to * Pow(100, n) - x) * alpha

\* a start coordinate, a target coordinate that stays, and the blend factor of
\* one of the integrators
LerpProbes ==
  { [kind |-> "lerp", from |-> x, to |-> t, alpha |-> a] :
      x \in (-MaxCoordinate) .. MaxCoordinate,
      t \in (-MaxCoordinate) .. MaxCoordinate,
      a \in {UpdateAlpha, ExperienceAlpha, ExperienceScaleAlpha} }

\* one frame's integration step toward the target
Integrate ==
  /\ probe.kind = "lerp"
  /\ \/ /\ result = NoResult
        /\ result' = [ kind |-> "position", n |-> 1, before |-> probe.from,
                       at |-> Lerp(probe.from, 0, probe.to, probe.alpha) ]
     \/ /\ result.kind = "position"
        /\ result.n < MaxSteps
        /\ result' = [ kind |-> "position", n |-> result.n + 1, before |-> result.at,
                       at |-> Lerp(result.at, result.n, probe.to, probe.alpha) ]
  /\ UNCHANGED << probe, programVars >>

\* a kind and a slot index for which particles are constructed
AnchorProbes ==
  { [kind |-> "anchor", revision |-> r, type |-> ty, index |-> k] :
      r \in {"Scene", "SceneB"}, ty \in {"DECOR", "PHOTO", "DUST"}, k \in {0, 1} }

\* new ParticleItem(mesh, type, index), twice at most for the same arguments
Construct ==
  /\ probe.kind = "anchor"
  /\ \E d1, d2, d3 \in Randoms :
       LET anchor == IF probe.revision = "Scene"
                     THEN SceneAnchor(probe.type, d1, d2, d3)
                     ELSE SceneBAnchor(probe.type, probe.index, AnchorTotal, d1, d2)
       IN  \/ /\ result = NoResult
              /\ result' = [kind |-> "anchors", made |-> << anchor >>]
           \/ /\ result.kind = "anchors"
              /\ Len(result.made) = 1
              /\ result' = [kind |-> "anchors", made |-> Append(result.made, anchor)]
  /\ UNCHANGED << probe, programVars >>

\* Experience.animate, SCATTER: the local targetPos of registry index i, as the
\* seed in halves and the radius r
ExperienceScatter(i) == [ seed |-> 3 * i, radius |-> 8 + (i % 12) ]

\* part_004 calculateTargets, SCATTER: targetPos of registry index i in a
\* registry of `length` particles: the radius, cos(phi) = -1 + 2 i / length as
\* a fraction, and theta = sqrt(length * PI) * phi as the length under the root
ScatterTargetByIndex(i, length, isMobile) ==
  [ radius |-> IF isMobile THEN 12 + (i % 8) ELSE 8 + (i % 12),
    cosNum |-> 2 * i - length,
    cosDen |-> length,
    thetaOf |-> length ]

\* two targets of part_004 are the same point: on the axis (sin(phi) = 0)
\* theta does not matter
SamePoint(a, b) ==
  /\ a.radius = b.radius
  /\ a.cosNum * b.cosDen = b.cosNum * a.cosDen
  /\ \/ a.thetaOf = b.thetaOf
     \/ a.cosNum * a.cosNum = a.cosDen * a.cosDen

\* a particle (its registry index and, for Scene.tsx, the scatterPos its
\* constructor drew) in a registry of some length
ScatterProbes ==
  { [kind |-> "scatter", index |-> i, length |-> n, isMobile |-> mob,
     scatterPos |-> SceneAnchor("DECOR", d, d, d)] :
      i \in 0 .. 2, n \in 3 .. 4, mob \in BOOLEAN, d \in Randoms }

\* the SCATTER branch of each revision for the probed particle
ScatterTargets(length) ==
  [ scene |-> probe.scatterPos,
    experience |-> ExperienceScatter(probe.index),
    byIndex |-> ScatterTargetByIndex(probe.index, length, probe.isMobile) ]

\* a frame in SCATTER; before the second frame a photo may have been pushed
\* onto the registry
ScatterFrame ==
  /\ probe.kind = "scatter"
  /\ \/ /\ result = NoResult
        /\ result' = [ kind |-> "scatter", length |-> probe.length,
                       frames |-> << ScatterTargets(probe.length) >> ]
     \/ /\ result.kind = "scatter"
        /\ Len(result.frames) = 1
        /\ \E pushed \in {0, 1} :
             result' = [ kind |-> "scatter", length |-> result.length + pushed,
                         frames |-> Append(result.frames,
                                           ScatterTargets(result.length + pushed)) ]
  /\ UNCHANGED << probe, programVars >>

Probes == FrameProbes \cup SlotProbes \cup LerpProbes \cup AnchorProbes \cup ScatterProbes

InitFunctions ==
  /\ Constructed
  /\ build = "Scene"
  /\ probe \in Probes
  /\ result = NoResult

NextFunctions ==
  \/ Classify
  \/ Helix
  \/ Integrate
  \/ Construct
  \/ ScatterFrame

SpecFunctions == InitFunctions /\ [][NextFunctions]_vars

---------------------------------------------------------------------------
(* What the claims speak about, for every revision *)

\* the mode the frame loop reads when it handles a gesture
CurrentMode == IF build = "Experience" THEN experienceMode ELSE stateRefMode

\* the mode a handler leaves behind: Experience.mode, or for Scene the mode
\* asked of App, which the next render commits
ResultMode == IF build = "Experience" THEN experienceMode ELSE RequestedMode

\* the focus target as the handlers store it
Focus == IF build = "Experience" THEN focusId ELSE << "index", focusedPhotoIndex >>

\* the focus target is 'none'
FocusUnset == Focus \in { Undefined, << "index", -1 >> }

\* the particles of the registry the focus target designates
FocusedParticles ==
  IF build = "Experience" THEN { i \in Indices : At(i).id = focusId }
  ELSE { i \in Indices : i = focusedPhotoIndex }

\* the last handler was a frame that handled gesture g
Handled(g) == last.op = "animate" /\ last.gesture = g

---------------------------------------------------------------------------
(* C1 *)

\* C1: in Scene.tsx and in Experience, whenever a mode is FOCUS (the mode the
\* frame loop reads, the mode App holds, the mode queued for App) the focus
\* target is set and designates particles of the registry, all of kind PHOTO.
C1_FocusHasPhotoTarget ==
  (build \in {"Scene", "Experience"}
     /\ "FOCUS" \in {CurrentMode, ResultMode, IF build = "Scene" THEN mode ELSE experienceMode})
  => /\ ~FocusUnset
     /\ FocusedParticles # {}
     /\ \A i \in FocusedParticles : Kind(At(i).type) = "PHOTO"

\* C1 witness: Scene.tsx runs a frame in FOCUS with two photos registered, the
\* focus on the older one.
C1_Witness ==
  /\ build = "Scene"
  /\ stateRefMode = "FOCUS"
  /\ last.op = "animate"
  /\ Cardinality(Photos(particles)) = 2
  /\ focusedPhotoIndex = NumDecor + NumDust

---------------------------------------------------------------------------
(* C2 *)

\* C2: with no PHOTO in the registry, a frame that handles PINCH leaves the
\* mode SCATTER, whatever the mode was, and never FOCUS with an unset target.
C2_PinchWithoutPhotosScatters ==
  (build \in {"Scene", "Experience"} /\ Handled("PINCH") /\ Photos(particles) = {})
  => /\ ResultMode = "SCATTER"
     /\ ~(ResultMode = "FOCUS" /\ FocusUnset)

---------------------------------------------------------------------------
(* C3 *)

\* C3: a frame that handles PINCH while the mode it reads is not FOCUS and a
\* PHOTO is registered asks for FOCUS and leaves the focus target on a
\* registered PHOTO, never on a DECOR or DUST particle (Scene.tsx, Experience);
\* a part_002 frame in FOCUS leaves its focus index on a registered PHOTO; and
\* in Scene.tsx every registered PHOTO is a possible outcome of such a frame.
C3_PinchFocusesAPhoto ==
  /\ (build \in {"Scene", "Experience"} /\ Handled("PINCH")
        /\ last.cur # "FOCUS" /\ Photos(particles) # {})
     => /\ ResultMode = "FOCUS"
        /\ FocusedParticles # {}
        /\ FocusedParticles \subseteq Photos(particles)
  /\ (build = "SceneB" /\ last.op = "animate" /\ stateRefMode = "FOCUS")
     => focusedPhotoIndex \in Photos(particles)
  /\ (build = "Scene" /\ stateRefMode # "FOCUS")
     => \A t \in Photos(particles) :
          ENABLED (SceneAnimate /\ last'.gesture = "PINCH" /\ focusedPhotoIndex' = t
                     /\ pendingMode' = "FOCUS")

\* C3 witness: Experience handles PINCH in SCATTER with two photos registered
\* and focuses the one registered first.
C3_Witness ==
  /\ build = "Experience"
  /\ Handled("PINCH")
  /\ last.cur = "SCATTER"
  /\ experienceMode = "FOCUS"
  /\ Cardinality(Photos(particles)) = 2
  /\ focusId = At(NumDecor + NumDust).id
  /\ focusId # At(NumDecor + NumDust + 1).id

---------------------------------------------------------------------------
(* C4 *)

\* C4: the handler of a photo-ingested event appends one PHOTO and leaves the
\* mode FOCUS with the focus target on exactly that new particle.
C4_IngestFocusesNewPhoto ==
  (build \in {"Scene", "Experience"} /\ last.op = "addPhoto")
  => /\ Kind(At(Len(particles) - 1).type) = "PHOTO"
     /\ ResultMode = "FOCUS"
     /\ Len(particles) - 1 \in FocusedParticles

---------------------------------------------------------------------------
(* C5 *)

\* C5: in Scene.tsx, when a frame handles FIST, OPEN or PINCH while the request
\* of an ingestion is still queued for the same render of App, the mode asked
\* of App stays FOCUS and the focus target stays the ingested photo.
C5_IngestionHasPriority ==
  (build = "Scene" /\ last.op = "animate" /\ last.gesture \in {"FIST", "OPEN", "PINCH"}
     /\ last.ingest # -1)
  => /\ RequestedMode = "FOCUS"
     /\ focusedPhotoIndex = last.ingest

---------------------------------------------------------------------------
(* C6 *)

\* C6: a frame that asks for the mode already asked for (PINCH after FOCUS,
\* FIST after TREE, OPEN after SCATTER) changes neither the mode nor the focus
\* target.
C6_ModeIdempotence ==
  (build \in {"Scene", "Experience"}
     /\ \/ Handled("PINCH") /\ last.req = "FOCUS"
        \/ Handled("FIST") /\ last.req = "TREE"
        \/ Handled("OPEN") /\ last.req = "SCATTER")
  => /\ ResultMode = last.req
     /\ Focus = last.focus

---------------------------------------------------------------------------
(* C7 *)

\* C7: when a handler takes the mode from FOCUS to TREE or SCATTER the focus
\* target is 'none' afterwards.
C7_LeavingFocusClearsTarget ==
  (last.req = "FOCUS" /\ ResultMode \in {"TREE", "SCATTER"}) => FocusUnset

---------------------------------------------------------------------------
(* C8 *)

\* C8: a frame that handles FIST leaves the mode TREE, from every mode and
\* with any number of photos.
C8_FistGivesTree ==
  Handled("FIST") => ResultMode = "TREE"

\* C8 witness: Experience handles FIST in FOCUS with a photo registered.
C8_Witness ==
  /\ build = "Experience"
  /\ Handled("FIST")
  /\ last.cur = "FOCUS"
  /\ experienceMode = "TREE"
  /\ Photos(particles) # {}

---------------------------------------------------------------------------
(* C9 *)

\* C9: a frame that handles OPEN leaves the mode SCATTER, from every mode and
\* with any number of photos.
C9_OpenGivesScatter ==
  Handled("OPEN") => ResultMode = "SCATTER"

\* C9 witness: Scene.tsx handles OPEN while its frame loop reads FOCUS and two
\* photos are registered.
C9_Witness ==
  /\ build = "Scene"
  /\ Handled("OPEN")
  /\ last.cur = "FOCUS"
  /\ pendingMode = "SCATTER"
  /\ Cardinality(Photos(particles)) = 2

---------------------------------------------------------------------------
(* C10 *)

\* C10: in Scene.tsx and Experience a frame whose gesture is NONE, or that has
\* no hand or no tracker, changes no mode and not the focus target; neither do
\* the render and the effect of App and Scene that may run between two frames,
\* so over any run of such frames the mode and the focus target stay.
C10_NoGestureNoChange ==
  (build \in {"Scene", "Experience"}
     /\ \/ last.op = "animate" /\ last.gesture \in {"NONE", "NoHand", "NotReady"}
        \/ last.op \in {"render", "effect"})
  => /\ ResultMode = last.req
     /\ Focus = last.focus
     /\ last.op = "animate" => CurrentMode = last.cur

\* C10 witness: Scene.tsx runs a frame without a hand while its frame loop
\* reads FOCUS.
C10_Witness ==
  /\ build = "Scene"
  /\ Handled("NoHand")
  /\ last.cur = "FOCUS"
  /\ stateRefMode = "FOCUS"
  /\ ~FocusUnset

---------------------------------------------------------------------------
(* C11 *)

\* C11: a run that starts in TREE without photos and whose first three frames
\* handle OPEN, OPEN and PINCH is in SCATTER after the second frame and still in
\* SCATTER after the third, whatever renders ran between and after the frames.
C11_ScenarioBEndsInScatter ==
  (build \in {"Scene", "Experience"} /\ last.scenario \in {2, Len(ScenarioB)})
  => /\ Photos(particles) = {}
     /\ ResultMode = "SCATTER"

\* C11 witness: Scene.tsx has followed scenario B to its end and App has
\* committed the mode.
C11_Witness ==
  /\ build = "Scene"
  /\ last.scenario = Len(ScenarioB)
  /\ mode = "SCATTER"
  /\ pendingMode = NoUpdate
  /\ stateRefMode = "SCATTER"

---------------------------------------------------------------------------
(* C12 *)

\* C12: no step shortens the registry or changes the particle at an index the
\* registry already had.
C12_RegistryAppendOnly ==
  [][ /\ Len(particles') >= Len(particles)
      /\ \A i \in 1 .. Len(particles) : particles'[i] = particles[i] ]_vars

\* C12 witness: two photos have been appended behind the particles of the
\* start-up loops, with frames and a mode change in between.
C12_Witness ==
  /\ build = "Scene"
  /\ Len(particles) = NumDecor + NumDust + 2
  /\ \A i \in 1 .. (NumDecor + NumDust) : particles[i] = SceneParticles[i]
  /\ mode = "FOCUS"
  /\ last.op = "animate"

---------------------------------------------------------------------------
(* C13 *)

\* C13: no two particles of the Experience registry have the same id.
C13_IdsUnique ==
  build = "Experience"
  => \A i, j \in Indices : i # j => At(i).id # At(j).id

---------------------------------------------------------------------------
(* C14, C15: what the classifiers measure *)

\* distance of a fingertip to the wrist, in the picture plane
Reach(hand, tip) == Hypot(hand[tip].x - hand.l0.x, hand[tip].y - hand.l0.y)

\* thumb tip to index tip, in the picture plane and in space
ThumbToIndex(hand) == Hypot(hand.l4.x - hand.l8.x, hand.l4.y - hand.l8.y)

ThumbToIndex3D(hand) ==
  Hypot3(hand.l4.x - hand.l8.x, hand.l4.y - hand.l8.y, hand.l4.z - hand.l8.z)

\* four and three times the mean extension
Reach4(hand) ==
  Reach(hand, "l8") + Reach(hand, "l12") + Reach(hand, "l16") + Reach(hand, "l20")

Reach3(hand) == Reach(hand, "l12") + Reach(hand, "l16") + Reach(hand, "l20")

\* C14: for every hand whose thumb-to-index distance is below the pinch
\* threshold of a classifier (Scene.tsx animate, MediaPipeService.detectGestures,
\* part_004 processHand), that classifier takes the PINCH branch, whatever the
\* extension of the fingers is.
C14_PinchFirst ==
  result.kind = "gesture"
  => /\ ThumbToIndex(probe.hand) < PinchThreshold => result.scene = "PINCH"
     /\ ThumbToIndex3D(probe.hand) < ServicePinchThreshold => result.service = "PINCH"
     /\ ThumbToIndex(probe.hand) < ProcessHandPinchThreshold
          => result.processHand = "PINCH"

\* C14 witness: a pinching hand whose fingers are curled below every fist
\* threshold is classified PINCH by all three.
C14_Witness ==
  /\ result.kind = "gesture"
  /\ ThumbToIndex(probe.hand) < ProcessHandPinchThreshold
  /\ ThumbToIndex3D(probe.hand) < ServicePinchThreshold
  /\ Reach4(probe.hand) < 4 * ProcessHandFistThreshold
  /\ Reach3(probe.hand) < 3 * ServiceFistThreshold
  /\ result.scene = "PINCH"
  /\ result.service = "PINCH"
  /\ result.processHand = "PINCH"

\* C15: a distance equal to a threshold is on the far side of it: equal to the
\* pinch threshold is not PINCH, a mean extension equal to the fist threshold is
\* not FIST, equal to the open threshold is not OPEN (Scene.tsx animate and
\* MediaPipeService.detectGestures); and each hand gets one of the four gestures.
C15_StrictThresholds ==
  result.kind = "gesture"
  => /\ ThumbToIndex(probe.hand) = PinchThreshold => result.scene # "PINCH"
     /\ Reach4(probe.hand) = 4 * FistThreshold => result.scene # "FIST"
     /\ Reach4(probe.hand) = 4 * OpenThreshold => result.scene # "OPEN"
     /\ ThumbToIndex3D(probe.hand) = ServicePinchThreshold => result.service # "PINCH"
     /\ Reach3(probe.hand) = 3 * ServiceFistThreshold => result.service # "FIST"
     /\ Reach3(probe.hand) = 3 * ServiceOpenThreshold => result.service # "OPEN"
     /\ result.scene \in {"PINCH", "FIST", "OPEN", "NONE"}
     /\ result.service \in {"PINCH", "FIST", "OPEN", "NONE"}

\* C15 witness: a hand with pinch distance and mean extension both on their
\* thresholds is classified NONE by Scene.tsx and by MediaPipeService.
C15_Witness ==
  /\ result.kind = "gesture"
  /\ ThumbToIndex(probe.hand) = PinchThreshold
  /\ ThumbToIndex3D(probe.hand) = ServicePinchThreshold
  /\ Reach4(probe.hand) = 4 * FistThreshold
  /\ Reach3(probe.hand) = 3 * ServiceFistThreshold
  /\ result.scene = "NONE"
  /\ result.service = "NONE"

---------------------------------------------------------------------------
(* C16 *)

\* what calculateTargets leaves a particle with in a run that reaches the mode
\* with the target fields the constructor gave
DirectTarget(m, focus, idx, p) ==
  IF build = "SceneB" THEN SceneBTarget(m, focus, idx, p, InitialTarget)
  ELSE SceneTarget(m, focus, idx, p, InitialTarget)

\* C16: after a frame of Scene.tsx or part_002, the target position, rotation
\* and scale of every particle are those of any other run that computes them
\* for the same particle, mode and focus index, in particular of the run that
\* reaches the mode directly; the modes passed through before do not matter.
C16_TargetsIgnoreHistory ==
  (build \in {"Scene", "SceneB"} /\ last.op = "animate")
  => \A i \in 1 .. Len(particles) :
       targets[i] = DirectTarget(stateRefMode, focusedPhotoIndex, i - 1, particles[i])

---------------------------------------------------------------------------
(* C17 *)

\* C17: for every slot index of the 1500 DECOR particles, the helix target of a
\* frame in TREE has its height in [-H/2, H/2] and its distance from the
\* vertical axis in [0, R0], H and R0 being the factors of the formula (Scene.tsx
\* 32 and 13, Experience 30 and 12).
C17_HelixWithinBounds ==
  result.kind = "helix"
  => /\ 2 * Abs(result.scene.height) <= HelixHeight * HelixSlots
     /\ Abs(result.scene.radius) <= HelixRadius * HelixSlots
     /\ 2 * Abs(result.experience.height) <= ExperienceHelixHeight * ExperienceHelixSlots
     /\ Abs(result.experience.radius) <= ExperienceHelixRadius * ExperienceHelixSlots

---------------------------------------------------------------------------
(* C18 *)

\* the distance of the coordinate reached after n steps to the target, times 100^n
Remaining(x, n) == Abs(x - probe.to * Pow(100, n))

\* C18: after n integration steps toward a target that stays, the distance to
\* the target is at most the initial distance times (1 - alpha)^n, and it is not
\* larger than it was one step before.
C18_Converges ==
  result.kind = "position"
  => /\ Remaining(result.at, result.n)
          <= Abs(probe.from - probe.to) * Pow(100 - probe.alpha, result.n)
     /\ Remaining(result.at, result.n) <= 100 * Remaining(result.before, result.n - 1)

\* C18 witness: ParticleItem.update has run all its steps from a position away
\* from the target and has come closer with the last one.
C18_Witness ==
  /\ result.kind = "position"
  /\ result.n = MaxSteps
  /\ probe.alpha = UpdateAlpha
  /\ probe.from = -MaxCoordinate
  /\ probe.to = MaxCoordinate
  /\ Remaining(result.at, result.n) < 100 * Remaining(result.before, result.n - 1)
  /\ Remaining(result.at, result.n) > 0

---------------------------------------------------------------------------
(* C19 *)

\* C19: two particles constructed with the same kind, slot index and total have
\* the same scatter anchor.
C19_AnchorPure ==
  (result.kind = "anchors" /\ Len(result.made) = 2)
  => result.made[1] = result.made[2]

---------------------------------------------------------------------------
(* C20 *)

\* a frame has just integrated the meshes in FOCUS
FocusFrame ==
  \/ build = "Scene" /\ last.op = "animate" /\ stateRefMode = "FOCUS"
  \/ build = "Experience" /\ last.op = "render" /\ experienceMode = "FOCUS"

\* the particles the frame sent to the presentation slot
InSlot == { i \in Indices : meshes[i + 1].toward.pos = "slot" }

\* C20: a frame in FOCUS sends exactly one particle to the presentation slot
\* with the large uniform scale, the focus target, and every other particle to
\* its scatter anchor times the push factor with a scale below 1.
C20_OneParticleInSlot ==
  FocusFrame
  => /\ Cardinality(InSlot) = 1
     /\ InSlot = FocusedParticles
     /\ \A i \in InSlot : meshes[i + 1].toward.scale = <<45, 45, 45>>
     /\ \A i \in Indices \ InSlot :
          /\ meshes[i + 1].toward.pos = "pushAway"
          /\ \A k \in 1 .. 3 : meshes[i + 1].toward.scale[k] < 10

---------------------------------------------------------------------------
(* C21 *)

\* C21: the target position of a particle is the same in every SCATTER frame,
\* in each revision: the scatterPos of Scene.tsx, the point Experience
\* computes, the point part_004 computes.
C21_ScatterTargetFixed ==
  (result.kind = "scatter" /\ Len(result.frames) = 2) =>
    /\ result.frames[1].scene = result.frames[2].scene
    /\ result.frames[1].experience = result.frames[2].experience
    /\ SamePoint(result.frames[1].byIndex, result.frames[2].byIndex)

\* what holds: Scene.tsx and Experience give a particle one SCATTER target, and
\* part_004 does as long as the registry keeps its length or the particle is
\* the first of the registry
C21_FixedWhileRegistryKeepsLength ==
  (result.kind = "scatter" /\ Len(result.frames) = 2) =>
    /\ result.frames[1].scene = probe.scatterPos
    /\ result.frames[2].scene = probe.scatterPos
    /\ result.frames[1].experience = result.frames[2].experience
    /\ (result.length = probe.length \/ probe.index = 0)
         => SamePoint(result.frames[1].byIndex, result.frames[2].byIndex)

---------------------------------------------------------------------------
(* C22 *)

\* C22: no step changes the kind of a particle of the registry, nor, where the
\* revision has them, its slotIndex and its scatterPos: frames, mode changes
\* (Experience.setMode tags the focus) and ingestions leave them as the
\* constructor set them.
C22_CreationFieldsFixed ==
  [][ \A i \in 1 .. Len(particles) :
        /\ i <= Len(particles')
        /\ Kind(particles'[i].type) = Kind(particles[i].type)
        /\ build # "Experience" =>
             /\ particles'[i].slotIndex = particles[i].slotIndex
             /\ particles'[i].scatterPos = particles[i].scatterPos ]_vars

\* Experience.setMode has just drawn and tagged a focus among two photos, next
\* to particles of other kinds
C22_Witness ==
  /\ build = "Experience"
  /\ last.op = "animate"
  /\ last.cur # "FOCUS"
  /\ experienceMode = "FOCUS"
  /\ Cardinality(Photos(particles)) = 2
  /\ \E i \in Indices : At(i).type # "PHOTO"

---------------------------------------------------------------------------
(* C23 *)

\* C23: in a frame of Scene.tsx, calculateTargets changes target transforms
\* only (the meshes, the mode and the focus index are as the gesture branch
\* left them), and the update loop changes meshes only (the targets, the mode
\* and the focus index are as calculateTargets left them); the frame ends on
\* what the update loop left.
C23_WriteOwnership ==
  (build = "Scene" /\ frame.log # << >>) =>
    /\ frame.targeted.meshes = frame.gestured.meshes
    /\ frame.targeted.mode = frame.gestured.mode
    /\ frame.targeted.focus = frame.gestured.focus
    /\ frame.updated.targets = frame.targeted.targets
    /\ frame.updated.mode = frame.targeted.mode
    /\ frame.updated.focus = frame.targeted.focus
    /\ targets = frame.updated.targets
    /\ meshes = frame.updated.meshes
    /\ stateRefMode = frame.updated.mode
    /\ focusedPhotoIndex = frame.updated.focus

\* a frame of Scene.tsx with a photo in the registry in which both steps wrote:
\* the targets changed in the first, the meshes in the second
C23_Witness ==
  /\ build = "Scene"
  /\ frame.log # << >>
  /\ Photos(particles) # {}
  /\ frame.targeted.targets # frame.gestured.targets
  /\ frame.updated.meshes # frame.targeted.meshes

---------------------------------------------------------------------------
(* C24 *)

\* C24: after a frame, a particle has had rotationSpeed added to its rotation
\* in that frame if and only if the mode its integration step used is SCATTER.
C24_SpinOnlyInScatter ==
  \A k \in DOMAIN frame.log :
    frame.log[k].step = "update" =>
      (meshes[frame.log[k].particle + 1].spun <=> (frame.log[k].mode = "SCATTER"))

\* a frame of Scene.tsx in SCATTER, with a photo, has spun the particles
C24_Witness ==
  /\ build = "Scene"
  /\ frame.log # << >>
  /\ Photos(particles) # {}
  /\ stateRefMode = "SCATTER"
  /\ \A i \in Indices : meshes[i + 1].spun

---------------------------------------------------------------------------
(* C25 *)

\* C25: a frame starts with the gesture handling, computes the targets of all
\* particles before it integrates any particle, and reads one mode value in
\* both steps.
C25_TargetsBeforeIntegration ==
  frame.log # << >> =>
    /\ frame.log[1].step = "gesture"
    /\ \A j, k \in DOMAIN frame.log :
         (frame.log[j].step = "target" /\ frame.log[k].step = "update") =>
           /\ j < k
           /\ frame.log[j].mode = frame.log[k].mode

\* what holds: the frames of Scene.tsx and part_002 run in that order, and
\* every frame reads one mode value in all its target and integration steps
C25_OrderInScene ==
  frame.log # << >> =>
    /\ build # "Experience" =>
         /\ frame.log[1].step = "gesture"
         /\ \A j, k \in DOMAIN frame.log :
              (frame.log[j].step = "target" /\ frame.log[k].step = "update") => j < k
    /\ \A j, k \in DOMAIN frame.log :
         (frame.log[j].step # "gesture" /\ frame.log[k].step # "gesture") =>
           frame.log[j].mode = frame.log[k].mode

---------------------------------------------------------------------------
(* C26 *)

\* the registry indices a frame's log has a step of that name for
Stepped(log, step) == { log[k].particle : k \in { j \in DOMAIN log : log[j].step = step } }

\* C26: a frame leaves the registry as it found it, computes targets for and
\* integrates exactly the particles of that registry, and ends with the focus
\* target its own gesture handling left (Experience.animate: the one it
\* found); a step that extends the registry is an ingestion and not a frame.
C26_IngestionBetweenFrames ==
  [][ /\ frame'.log # << >> =>
           /\ particles' = particles
           /\ Stepped(frame'.log, "target") = Indices
           /\ Stepped(frame'.log, "update") = Indices
           /\ DOMAIN meshes' = DOMAIN particles
           /\ build # "Experience" => DOMAIN targets' = DOMAIN particles
           /\ build = "Scene" => focusedPhotoIndex' = frame'.gestured.focus
           /\ build = "Experience" => focusId' = focusId
      /\ Len(particles') # Len(particles) =>
           /\ frame'.log = << >>
           /\ last'.op = "addPhoto" ]_vars

\* a frame of Scene.tsx that follows an ingestion, before App has rendered:
\* it covers the new photo
C26_Witness ==
  /\ build = "Scene"
  /\ frame.log # << >>
  /\ batch = Len(particles) - 1
  /\ At(batch).type = "PHOTO"
  /\ batch \in Stepped(frame.log, "update")

---------------------------------------------------------------------------
(* C27 *)

\* the tracker is not loaded, the video is not ready or no hand is detected
Absent(g) == g \in {"NotReady", "NoHand"}

\* C27: a pass of the frame loop without a hand requests no mode, leaves the
\* focus target, applies the idle rotation to mainGroup, and (Scene.tsx,
\* part_002) still computes the target of and integrates every particle.
C27_AbsenceIsNotAnError ==
  (last.op = "animate" /\ Absent(last.gesture)) =>
    /\ ResultMode = last.req
    /\ build # "SceneB" => Focus = last.focus
    /\ mainGroup = "idle"
    /\ build # "Experience" =>
         /\ Stepped(frame.log, "target") = Indices
         /\ Stepped(frame.log, "update") = Indices

\* what holds: the same without the idle rotation, which part_002 alone applies
C27_AbsenceSkipsGestures ==
  (last.op = "animate" /\ Absent(last.gesture)) =>
    /\ ResultMode = last.req
    /\ build # "SceneB" => Focus = last.focus
    /\ mainGroup = "idle" <=> build = "SceneB"
    /\ build # "Experience" =>
         /\ Stepped(frame.log, "target") = Indices
         /\ Stepped(frame.log, "update") = Indices

---------------------------------------------------------------------------
(* C28 *)

\* C28: a hand that is not pinching is FIST exactly when the sum of the wrist
\* distances of the four finger tips 8, 12, 16 and 20 is below four times the
\* fist threshold, and OPEN exactly when that sum is above four times the open
\* threshold: in Scene.tsx, in MediaPipeService.detectGestures and in part_002.
C28_ExtensionIsMeanOfFourTips ==
  result.kind = "gesture" =>
    /\ ThumbToIndex(probe.hand) >= PinchThreshold =>
         /\ result.scene = "FIST" <=> Reach4(probe.hand) < 4 * FistThreshold
         /\ result.scene = "OPEN" <=> Reach4(probe.hand) > 4 * OpenThreshold
    /\ ThumbToIndex3D(probe.hand) >= ServicePinchThreshold =>
         /\ result.service = "FIST" <=> Reach4(probe.hand) < 4 * ServiceFistThreshold
         /\ result.service = "OPEN" <=> Reach4(probe.hand) > 4 * ServiceOpenThreshold
    /\ ThumbToIndex(probe.hand) >= PinchThresholdB =>
         /\ result.sceneB = "FIST" <=> Reach4(probe.hand) < 4 * FistThresholdB
         /\ result.sceneB = "OPEN" <=> Reach4(probe.hand) > 4 * OpenThresholdB

\* twice the mean of part_002: the tips 8 and 12
Reach2(hand) == Reach(hand, "l8") + Reach(hand, "l12")

\* what holds: Scene.tsx takes the four tips, detectGestures the tips 12, 16
\* and 20, part_002 the tips 8 and 12
C28_TipsOfEachRevision ==
  result.kind = "gesture" =>
    /\ ThumbToIndex(probe.hand) >= PinchThreshold =>
         /\ result.scene = "FIST" <=> Reach4(probe.hand) < 4 * FistThreshold
         /\ result.scene = "OPEN" <=> Reach4(probe.hand) > 4 * OpenThreshold
    /\ ThumbToIndex3D(probe.hand) >= ServicePinchThreshold =>
         /\ result.service = "FIST" <=> Reach3(probe.hand) < 3 * ServiceFistThreshold
         /\ result.service = "OPEN" <=> Reach3(probe.hand) > 3 * ServiceOpenThreshold
    /\ ThumbToIndex(probe.hand) >= PinchThresholdB =>
         /\ result.sceneB = "FIST" <=> Reach2(probe.hand) < 2 * FistThresholdB
         /\ result.sceneB = "OPEN" <=> Reach2(probe.hand) > 2 * OpenThresholdB

---------------------------------------------------------------------------
(* C29 *)

\* C29: stateRef.current.mode takes its values from App's mode, and App's mode
\* from the updates queued through onModeChange, so it holds TREE or a mode that
\* was requested; and once mode m is the last request, stateRef.current.mode
\* becomes m unless a request for another mode follows.
C29_FrameModeFollowsRequests ==
  /\ [][ /\ stateRefMode' \in {stateRefMode, mode}
         /\ mode' = mode \/ (pendingMode # NoUpdate /\ mode' = pendingMode) ]_vars
  /\ \A m \in SceneMode :
       (build \in {"Scene", "SceneB"} /\ pendingMode = m)
         ~> (stateRefMode = m \/ RequestedMode # m)

\* the effect has just copied SCATTER, requested by a gesture after a photo
\* was ingested, and no request is queued
C29_Witness ==
  /\ build = "Scene"
  /\ last.op = "effect"
  /\ pendingMode = NoUpdate
  /\ stateRefMode = "SCATTER"
  /\ Photos(particles) # {}

---------------------------------------------------------------------------
(* C30 *)

\* how many particles of the kind of particle i come before it in the registry
Rank(i) == Cardinality({ j \in Indices : j < i /\ At(j).type = At(i).type })

\* the slot indices the particles of a type carry
Slots(type) == { At(i).slotIndex : i \in { j \in Indices : At(j).type = type } }

=============================================================================
